---- MODULE Spec2Model ----
(***************************************************************************)
(* Model of src/src/analyze_ranking.py: parse_columns (the header regex),  *)
(* calculate_rankings (bucket sort and concatenation, one loop iteration   *)
(* per respondent row) and main (the orchestration, aggregation and the    *)
(* two output files).                                                      *)
(*                                                                         *)
(* Text is modelled as a sequence of symbols.  A symbol is one character   *)
(* (" ", "-") or one word that the regex can only match as a whole         *)
(* ("Rank", "Neutral", ...).  "Ranks" is the two symbols "Rank","s", so    *)
(* that the literal " - Rank" also matches in front of an "s", as it does  *)
(* in the real text.  Headers contain no newline.                          *)
(***************************************************************************)
EXTENDS Integers, Sequences, FiniteSets, TLC

VARIABLES
    pc,            \* position of main: start, load, parse, rank, aggregate, write_text, plot, done
    inputExists,   \* data/data.xlsx is present
    outDirExists,  \* the directory outputs/ is present
    created,       \* artefacts created or written by this run, in order
    printed,       \* messages printed by this run, in order
    loaded,        \* pd.read_excel returned a table
    columns,       \* df.columns: the headers, in table order
    hasResponseId, \* the table has a 'Response ID' column
    col_map,       \* result of parse_columns, in insertion order
    idx,           \* number of rows iterrows() has yielded so far
    row,           \* the row of the current (latest) loop iteration
    emitted,       \* the records the latest loop iteration appended, each with
                   \* the column it came from (from_col, not part of the dict)
    allMissing,    \* no row read so far had a value in a ranking column
    students,      \* student_id of every row processed, in order
    records,       \* the list `records` of calculate_rankings
    course_stats   \* the summary table of main

vars == <<pc, inputExists, outDirExists, created, printed, loaded, columns,
          hasResponseId, col_map, idx, row, emitted, allMissing, students,
          records, course_stats>>

-----------------------------------------------------------------------------
(* Bounds of the model *)

MaxRows == 2
MaxCols == 2
MaxRawRank == 2

-----------------------------------------------------------------------------
(* Text *)

Sep == <<" ", "-", " ">>
RanksAnchor == Sep \o <<"Rank", "s">> \o Sep
RankSuffix == Sep \o <<"Rank">>
Categories == {"Most Beneficial", "Neutral", "Least Beneficial"}

\* Symbols in code-point order of their first character (str comparison).
Alphabet == <<" ", "-", ".1", "A", "B", "Foo", "Least Beneficial",
              "Most Beneficial", "Neutral", "Q", "Rank", "s">>

SetMax(S) == CHOOSE m \in S : \A x \in S : x <= m

OccursAt(h, i, lit) ==
    /\ i >= 1
    /\ i + Len(lit) - 1 <= Len(h)
    /\ \A k \in 1..Len(lit) : h[i + k - 1] = lit[k]

\* " - Ranks - <category> - "
PatternHead(cat) == RanksAnchor \o <<cat>> \o Sep

\* Start positions of the pattern head from which the rest of the pattern,
\* "(.*) - Rank", still matches.
HeadStarts(h) ==
    {i \in 1..Len(h) : \E cat \in Categories :
        /\ OccursAt(h, i, PatternHead(cat))
        /\ \E q \in (i + Len(PatternHead(cat)))..Len(h) : OccursAt(h, q, RankSuffix)}

NoMatch == [matched |-> FALSE]

\* pattern.search(col): the leading ".*" is greedy, so the head is the last
\* one from which the rest matches; group 2 is greedy, so it runs up to the
\* last " - Rank" of the header.  Nothing anchors the end of the header.
PatternSearch(h) ==
    IF HeadStarts(h) = {} THEN NoMatch
    ELSE LET i == SetMax(HeadStarts(h))
             p == i + Len(RanksAnchor) + 1 + Len(Sep)
             q == SetMax({j \in p..Len(h) : OccursAt(h, j, RankSuffix)})
         IN  [matched |-> TRUE,
              group1 |-> h[i + Len(RanksAnchor)],
              group2 |-> SubSeq(h, p, q - 1),
              end |-> q + Len(RankSuffix) - 1]

RECURSIVE LStrip(_)
LStrip(s) == IF s # <<>> /\ Head(s) = " " THEN LStrip(Tail(s)) ELSE s

RECURSIVE RStrip(_)
RStrip(s) ==
    IF s # <<>> /\ s[Len(s)] = " " THEN RStrip(SubSeq(s, 1, Len(s) - 1)) ELSE s

\* str.strip()
Strip(s) == RStrip(LStrip(s))

\* parse_columns: col_map after the first n columns, in insertion order.  An
\* entry is keyed by its column (its position in the table).
RECURSIVE parse_columns_upto(_, _)
parse_columns_upto(cols, n) ==
    IF n = 0 THEN <<>>
    ELSE LET m == PatternSearch(cols[n])
             before == parse_columns_upto(cols, n - 1)
         IN  IF m.matched
             THEN Append(before, [col |-> n, category |-> m.group1,
                                  course |-> Strip(m.group2)])
             ELSE before

parse_columns(cols) == parse_columns_upto(cols, Len(cols))

-----------------------------------------------------------------------------
(* calculate_rankings *)

\* A raw rank cell: 0 is a missing cell (NaN), otherwise the raw rank.
notna(rank_val) == rank_val > 0

\* row.get('Response ID', idx): iterrows() yields the positional index, from 0.
StudentId(r, i) == IF hasResponseId THEN r.id ELSE <<i>>

\* The bucket of one category: (course, rank_val) in col_map order, cells
\* that are missing left out.
RECURSIVE Bucket(_, _, _, _)
Bucket(cmap, r, category, n) ==
    IF n = 0 THEN <<>>
    ELSE LET e == cmap[n]
             before == Bucket(cmap, r, category, n - 1)
         IN  IF notna(r.vals[e.col]) /\ e.category = category
             THEN Append(before, [course |-> e.course, rank_val |-> r.vals[e.col],
                                  from_col |-> e.col])
             ELSE before

\* A sort that puts x in front of the entries with an equal key.
RECURSIVE InsertByRankUnstable(_, _)
InsertByRankUnstable(sorted, x) ==
    IF sorted = <<>> THEN <<x>>
    ELSE IF sorted[Len(sorted)].rank_val < x.rank_val THEN Append(sorted, x)
    ELSE Append(InsertByRankUnstable(SubSeq(sorted, 1, Len(sorted) - 1), x),
                sorted[Len(sorted)])

\* list.sort(key=lambda x: x[1]) is stable: x goes behind every entry whose
\* key is not larger.
RECURSIVE InsertByRank(_, _)
InsertByRank(sorted, x) ==
    IF sorted = <<>> THEN <<x>>
    ELSE IF sorted[Len(sorted)].rank_val <= x.rank_val THEN Append(sorted, x)
    ELSE Append(InsertByRank(SubSeq(sorted, 1, Len(sorted) - 1), x),
                sorted[Len(sorted)])

RECURSIVE SortByRankUpto(_, _)
SortByRankUpto(bucket, n) ==
    IF n = 0 THEN <<>>
    ELSE InsertByRank(SortByRankUpto(bucket, n - 1), bucket[n])

SortByRank(bucket) == SortByRankUpto(bucket, Len(bucket))

\* A loop that starts every bucket at rank 1.
EmitBucketFromOne(student_id, bucket, current_rank) ==
    [k \in 1..Len(bucket) |->
        [Student |-> student_id, Course |-> bucket[k].course,
         Global_Rank |-> k, from_col |-> bucket[k].from_col]]

\* One "for course, _ in bucket" loop, entered with current_rank.
EmitBucket(student_id, bucket, current_rank) ==
    [k \in 1..Len(bucket) |->
        [Student |-> student_id, Course |-> bucket[k].course,
         Global_Rank |-> current_rank + k - 1, from_col |-> bucket[k].from_col]]

\* The Neutral loop placed in front of the Most Beneficial loop.
RowRecordsNeutralFirst(cmap, r, student_id) ==
    LET most_beneficial == SortByRank(Bucket(cmap, r, "Most Beneficial", Len(cmap)))
        neutral == SortByRank(Bucket(cmap, r, "Neutral", Len(cmap)))
        least_beneficial == SortByRank(Bucket(cmap, r, "Least Beneficial", Len(cmap)))
    IN  EmitBucket(student_id, neutral, 1)
        \o EmitBucket(student_id, most_beneficial, 1 + Len(neutral))
        \o EmitBucket(student_id, least_beneficial,
                      1 + Len(most_beneficial) + Len(neutral))

\* The records one loop iteration appends, in order.
RowRecords(cmap, r, student_id) ==
    LET most_beneficial == SortByRank(Bucket(cmap, r, "Most Beneficial", Len(cmap)))
        neutral == SortByRank(Bucket(cmap, r, "Neutral", Len(cmap)))
        least_beneficial == SortByRank(Bucket(cmap, r, "Least Beneficial", Len(cmap)))
    IN  EmitBucket(student_id, most_beneficial, 1)
        \o EmitBucket(student_id, neutral, 1 + Len(most_beneficial))
        \o EmitBucket(student_id, least_beneficial,
                      1 + Len(most_beneficial) + Len(neutral))

\* The dict that goes into `records`.
RecordDict(e) ==
    [Student |-> e.Student, Course |-> e.Course, Global_Rank |-> e.Global_Rank]

-----------------------------------------------------------------------------
(* Aggregation: groupby('Course')['Global_Rank'].agg(['mean','count','std']) *)

SymbolRank(x) == CHOOSE k \in 1..Len(Alphabet) : Alphabet[k] = x

\* a < b for str
RECURSIVE CourseLess(_, _)
CourseLess(a, b) ==
    IF b = <<>> THEN FALSE
    ELSE IF a = <<>> THEN TRUE
    ELSE IF Head(a) # Head(b) THEN SymbolRank(Head(a)) < SymbolRank(Head(b))
    ELSE CourseLess(Tail(a), Tail(b))

CoursesOf(recs) == {recs[k].Course : k \in 1..Len(recs)}

RECURSIVE SumRanks(_, _, _)
SumRanks(recs, course, n) ==
    IF n = 0 THEN 0
    ELSE SumRanks(recs, course, n - 1)
         + (IF recs[n].Course = course THEN recs[n].Global_Rank ELSE 0)

RECURSIVE SumSquares(_, _, _)
SumSquares(recs, course, n) ==
    IF n = 0 THEN 0
    ELSE SumSquares(recs, course, n - 1)
         + (IF recs[n].Course = course
            THEN recs[n].Global_Rank * recs[n].Global_Rank ELSE 0)

CountRanks(recs, course) ==
    Cardinality({k \in 1..Len(recs) : recs[k].Course = course})

\* The aggregate with the population standard deviation (ddof = 0).
GroupStatsPopulationStd(recs, course) ==
    LET n == CountRanks(recs, course)
        s == SumRanks(recs, course, Len(recs))
        q == SumSquares(recs, course, Len(recs))
    IN  [Course |-> course,
         mean |-> [num |-> s, den |-> n],
         count |-> n,
         std |-> [num |-> n * q - s * s, den |-> n * n]]

\* One row of the aggregate.  The mean is the fraction sum/count; the sample
\* variance (ddof = 1) is the fraction (N*sumsq - sum^2) / (N*(N-1)), and the
\* standard deviation is NaN when that denominator is 0.
GroupStats(recs, course) ==
    LET n == CountRanks(recs, course)
        s == SumRanks(recs, course, Len(recs))
        q == SumSquares(recs, course, Len(recs))
    IN  [Course |-> course,
         mean |-> [num |-> s, den |-> n],
         count |-> n,
         std |-> [num |-> n * q - s * s, den |-> n * (n - 1)]]

\* groupby sorts the group keys.
RECURSIVE SortedCourses(_)
SortedCourses(S) ==
    IF S = {} THEN <<>>
    ELSE LET c == CHOOSE x \in S : \A y \in S \ {x} : CourseLess(x, y)
         IN  <<c>> \o SortedCourses(S \ {c})

GroupBy(recs) ==
    LET order == SortedCourses(CoursesOf(recs))
    IN  [k \in 1..Len(order) |-> GroupStats(recs, order[k])]

MeanLess(a, b) == a.num * b.den < b.num * a.den
MeanEq(a, b) == a.num * b.den = b.num * a.den
IsNaN(std) == std.den = 0

Reorderings(s) ==
    {[k \in 1..Len(s) |-> s[f[k]]] :
        f \in {g \in [1..Len(s) -> 1..Len(s)] :
                  \A a, b \in 1..Len(s) : a # b => g[a] # g[b]}}

\* sort_values(by='mean') with the default kind='quicksort', which is not a
\* stable sort: the result is ascending by mean, and rows with equal means
\* come in an order the library does not fix.
SortValuesOutcomes(stats) ==
    {p \in Reorderings(stats) :
        \A a, b \in 1..Len(p) : a < b => ~MeanLess(p[b].mean, p[a].mean)}

-----------------------------------------------------------------------------
(* Inputs *)

Courses == {<<"A">>, <<"B">>}

\* A ranking header as the survey tool exports it.
RankingHeader(category, course) ==
    <<"Q">> \o PatternHead(category) \o course \o RankSuffix

RankingHeaders == {RankingHeader(c, n) : c \in Categories, n \in Courses}

\* The headers of the tables main is run on: two ranking columns and one
\* other survey field.
MainHeaders ==
    {RankingHeader("Most Beneficial", <<"A">>),
     RankingHeader("Neutral", <<"B">>),
     <<"Foo">>}

\* Tables of up to MaxCols columns with pairwise different headers.
Tables(H) ==
    UNION {{t \in [1..n -> H] : \A a, b \in 1..n : a # b => t[a] # t[b]} :
           n \in 0..MaxCols}

\* The 'Response ID' cell of the row at position i; the survey tool gives
\* every response its own identifier.
ResponseId(i) == <<"R", i>>
NoRow == [id |-> <<>>, vals |-> <<>>]

\* The rows a table with these columns can hold at position i.  Cells of
\* columns that are not in col_map are never read; they are left missing.
Rows(cmap, ncols, i) ==
    {[id |-> ResponseId(i), vals |-> v] :
        v \in {w \in [1..ncols -> 0..MaxRawRank] :
                  \A c \in 1..ncols :
                      (\A k \in 1..Len(cmap) : cmap[k].col # c) => w[c] = 0}}

-----------------------------------------------------------------------------
(* main *)

\* os.makedirs(output_dir, exist_ok=True)
MakeDirs ==
    /\ pc = "start"
    /\ created' = IF outDirExists THEN created ELSE Append(created, "outputs")
    /\ outDirExists' = TRUE
    /\ printed' = Append(printed, "Loading data")
    /\ pc' = "load"
    /\ UNCHANGED <<inputExists, loaded, columns, hasResponseId, col_map, idx,
                   row, emitted, allMissing, students, records, course_stats>>

\* pd.read_excel(data_path), FileNotFoundError caught
LoadData ==
    /\ pc = "load"
    /\ IF inputExists
       THEN /\ columns' \in Tables(MainHeaders)
            /\ hasResponseId' \in BOOLEAN
            /\ loaded' = TRUE
            /\ pc' = "parse"
            /\ UNCHANGED printed
       ELSE /\ printed' = Append(printed, "Error: not found")
            /\ pc' = "done"
            /\ UNCHANGED <<columns, hasResponseId, loaded>>
    /\ UNCHANGED <<inputExists, outDirExists, created, col_map, idx, row,
                   emitted, allMissing, students, records, course_stats>>

\* col_map = parse_columns(df); if not col_map: return
ParseColumns ==
    /\ pc = "parse"
    /\ col_map' = parse_columns(columns)
    /\ IF col_map' = <<>>
       THEN /\ printed' = Append(printed, "No ranking columns found.")
            /\ pc' = "done"
       ELSE /\ printed' = printed \o <<"Found ranking columns", "Calculating">>
            /\ pc' = "rank"
    /\ UNCHANGED <<inputExists, outDirExists, created, loaded, columns,
                   hasResponseId, idx, row, emitted, allMissing, students, records,
                   course_stats>>

\* One iteration of "for idx, row in df.iterrows()".
ProcessRow ==
    /\ pc = "rank"
    /\ idx < MaxRows
    /\ \E r \in Rows(col_map, Len(columns), idx) :
          /\ row' = r
          /\ students' = Append(students, StudentId(r, idx))
          /\ emitted' = RowRecords(col_map, r, StudentId(r, idx))
          /\ allMissing' =
                (allMissing /\ \A k \in 1..Len(col_map) : ~notna(r.vals[col_map[k].col]))
    /\ records' = records \o [k \in 1..Len(emitted') |-> RecordDict(emitted'[k])]
    /\ idx' = idx + 1
    /\ UNCHANGED <<pc, inputExists, outDirExists, created, printed, loaded,
                   columns, hasResponseId, col_map, course_stats>>

\* The return of calculate_rankings without main's check for an empty table.
FinishRankingsNoCheck ==
    /\ pc = "rank"
    /\ pc' = "aggregate"
    /\ row' = NoRow
    /\ emitted' = <<>>
    /\ UNCHANGED <<inputExists, outDirExists, created, printed, loaded, columns,
                   hasResponseId, col_map, idx, allMissing, students, records,
                   course_stats>>

\* The table has no more rows: return pd.DataFrame(records), and main's
\* "if rankings_df.empty: return".
FinishRankings ==
    /\ pc = "rank"
    /\ IF records = <<>>
       THEN /\ printed' = Append(printed, "No rankings could be calculated.")
            /\ pc' = "done"
       ELSE /\ pc' = "aggregate"
            /\ UNCHANGED printed
    /\ row' = NoRow
    /\ emitted' = <<>>
    /\ UNCHANGED <<inputExists, outDirExists, created, loaded, columns,
                   hasResponseId, col_map, idx, allMissing, students, records,
                   course_stats>>

\* groupby(...).agg(...).reset_index(), sort_values(by='mean'), rename
AggregateRankings ==
    /\ pc = "aggregate"
    /\ course_stats' \in SortValuesOutcomes(GroupBy(records))
    /\ pc' = "write_text"
    /\ UNCHANGED <<inputExists, outDirExists, created, printed, loaded, columns,
                   hasResponseId, col_map, idx, row, emitted, allMissing, students, records>>

\* with open(ranking_text_path, 'w') as f: ...
WriteText ==
    /\ pc = "write_text"
    /\ created' = Append(created, "ranking.txt")
    /\ printed' = printed \o <<"Ranking text saved", "course_stats", "Generating">>
    /\ pc' = "plot"
    /\ UNCHANGED <<inputExists, outDirExists, loaded, columns, hasResponseId,
                   col_map, idx, row, emitted, allMissing, students, records, course_stats>>

\* the bar plot and plt.savefig(plot_path)
SavePlot ==
    /\ pc = "plot"
    /\ created' = Append(created, "rank_order.png")
    /\ printed' = Append(printed, "Ranking plot saved")
    /\ pc' = "done"
    /\ UNCHANGED <<inputExists, outDirExists, loaded, columns, hasResponseId,
                   col_map, idx, row, emitted, allMissing, students, records, course_stats>>

Init ==
    /\ pc = "start"
    /\ inputExists \in BOOLEAN
    /\ outDirExists \in BOOLEAN
    /\ created = <<>>
    /\ printed = <<>>
    /\ loaded = FALSE
    /\ columns = <<>>
    /\ hasResponseId = FALSE
    /\ col_map = <<>>
    /\ idx = 0
    /\ row = NoRow
    /\ emitted = <<>>
    /\ allMissing = TRUE
    /\ students = <<>>
    /\ records = <<>>
    /\ course_stats = <<>>

Next ==
    \/ MakeDirs
    \/ LoadData
    \/ ParseColumns
    \/ ProcessRow
    \/ FinishRankings
    \/ AggregateRankings
    \/ WriteText
    \/ SavePlot

Spec == Init /\ [][Next]_vars

\* calculate_rankings and what follows it in main, on tables whose columns
\* are all ranking columns and that carry a 'Response ID' column (Spec runs
\* main on tables with and without one).
InitRank ==
    /\ pc = "rank"
    /\ inputExists = TRUE
    /\ outDirExists = TRUE
    /\ created = <<"outputs">>
    /\ printed = <<"Loading data", "Found ranking columns", "Calculating">>
    /\ loaded = TRUE
    /\ columns \in Tables(RankingHeaders) \ {<<>>}
    /\ hasResponseId = TRUE
    /\ col_map = parse_columns(columns)
    /\ idx = 0
    /\ row = NoRow
    /\ emitted = <<>>
    /\ allMissing = TRUE
    /\ students = <<>>
    /\ records = <<>>
    /\ course_stats = <<>>

NextRank ==
    \/ ProcessRow
    \/ FinishRankings
    \/ AggregateRankings
    \/ WriteText
    \/ SavePlot

SpecRank == InitRank /\ [][NextRank]_vars

-----------------------------------------------------------------------------
(* parse_columns on one-column tables over a family of headers *)

HeaderPrefixes ==
    {<<>>, <<"Q">>, <<"Q">> \o PatternHead("Most Beneficial") \o <<"B">>}
HeaderAnchors ==
    {RanksAnchor, Sep \o <<"Rank">> \o Sep, <<"Rank", "s">> \o Sep}
HeaderCategories == Categories \cup {"Foo"}
HeaderCourses ==
    {<<>>, <<" ">>, <<"A">>, <<" ", "A", " ">>, <<"A">> \o Sep \o <<"B">>,
     <<"A">> \o RankSuffix}
HeaderSuffixes ==
    {RankSuffix, Sep \o <<"Rank", "s">>, <<"-", " ", "Rank">>, <<>>}
HeaderTails == {<<>>, <<".1">>, <<" ", "Foo">>}

HeaderFamily ==
    {pre \o anchor \o <<cat>> \o Sep \o course \o suffix \o tail :
        pre \in HeaderPrefixes, anchor \in HeaderAnchors,
        cat \in HeaderCategories, course \in HeaderCourses,
        suffix \in HeaderSuffixes, tail \in HeaderTails}

InitParse ==
    /\ pc = "parse"
    /\ inputExists = TRUE
    /\ outDirExists = TRUE
    /\ created = <<"outputs">>
    /\ printed = <<"Loading data">>
    /\ loaded = TRUE
    /\ columns \in {<<h>> : h \in HeaderFamily}
    /\ hasResponseId = FALSE
    /\ col_map = <<>>
    /\ idx = 0
    /\ row = NoRow
    /\ emitted = <<>>
    /\ allMissing = TRUE
    /\ students = <<>>
    /\ records = <<>>
    /\ course_stats = <<>>

NextParse == ParseColumns

SpecParse == InitParse /\ [][NextParse]_vars

-----------------------------------------------------------------------------
(* Properties *)

Range(s) == {s[k] : k \in 1..Len(s)}

\* calculate_rankings has run at least one loop iteration and not returned:
\* row and emitted are those of the latest iteration.
InLoop == pc = "rank" /\ idx > 0

\* The entries of col_map whose cell in the current row is not missing.
NonMissing == {k \in 1..Len(col_map) : notna(row.vals[col_map[k].col])}

\* The place in col_map of the column a record came from.
MapPos(e) == CHOOSE k \in 1..Len(col_map) : col_map[k].col = e.from_col
CategoryOf(e) == col_map[MapPos(e)].category
RawRankOf(e) == row.vals[e.from_col]

Priority(category) ==
    CASE category = "Most Beneficial" -> 1
      [] category = "Neutral" -> 2
      [] category = "Least Beneficial" -> 3

\* The latest iteration's records are the tail of `records`.
EmittedIsTail ==
    /\ Len(emitted) <= Len(records)
    /\ \A k \in 1..Len(emitted) :
          records[Len(records) - Len(emitted) + k] = RecordDict(emitted[k])

\* Every non-missing ranking cell of the row has its record.
EveryCellEmitted ==
    \A k \in NonMissing : \E a \in 1..Len(emitted) : emitted[a].from_col = col_map[k].col

\* C1: the Global_Rank values a row's iteration emits are exactly 1..K, K the
\* number of ranking columns whose value in the row is not missing, without
\* duplicates or gaps; a row with K = 0 adds no record.
C1_GlobalRanksOneToK ==
    InLoop =>
        /\ EmittedIsTail
        /\ Len(emitted) = Cardinality(NonMissing)
        /\ {emitted[k].Global_Rank : k \in 1..Len(emitted)} = 1..Cardinality(NonMissing)

\* A row with two ranked courses in two different buckets has been flattened.
C1_Witness ==
    /\ InLoop
    /\ Cardinality(NonMissing) = 2
    /\ Len(emitted) = 2
    /\ CategoryOf(emitted[1]) # CategoryOf(emitted[2])

\* C2: in one row, every record from a Most Beneficial column ranks before
\* every record from a Neutral column, and those before every record from a
\* Least Beneficial column, whichever buckets are empty.
C2_BucketPriorityOrder ==
    InLoop =>
        /\ EveryCellEmitted
        /\ \A a, b \in 1..Len(emitted) :
              Priority(CategoryOf(emitted[a])) < Priority(CategoryOf(emitted[b]))
                  => emitted[a].Global_Rank < emitted[b].Global_Rank

\* A row with a Neutral entry in an earlier column than its Most Beneficial
\* entry has been flattened.
C2_Witness ==
    /\ InLoop
    /\ \E a, b \in 1..Len(emitted) :
          /\ CategoryOf(emitted[a]) = "Most Beneficial"
          /\ CategoryOf(emitted[b]) = "Neutral"
          /\ emitted[b].from_col < emitted[a].from_col

\* C3: within one bucket of one row, a smaller raw rank gets a smaller
\* Global_Rank, and equal raw ranks get Global_Ranks in col_map order.
C3_WithinBucketOrder ==
    InLoop =>
        /\ EveryCellEmitted
        /\ \A a, b \in 1..Len(emitted) :
              CategoryOf(emitted[a]) = CategoryOf(emitted[b]) =>
                  /\ RawRankOf(emitted[a]) < RawRankOf(emitted[b])
                        => emitted[a].Global_Rank < emitted[b].Global_Rank
                  /\ (RawRankOf(emitted[a]) = RawRankOf(emitted[b])
                         /\ MapPos(emitted[a]) < MapPos(emitted[b]))
                        => emitted[a].Global_Rank < emitted[b].Global_Rank

\* Two entries of one bucket with the same raw rank have been flattened.
C3_Witness ==
    /\ InLoop
    /\ \E a, b \in 1..Len(emitted) :
          /\ a # b
          /\ CategoryOf(emitted[a]) = CategoryOf(emitted[b])
          /\ RawRankOf(emitted[a]) = RawRankOf(emitted[b])

-----------------------------------------------------------------------------
(* parse_columns *)

Parsed == pc # "parse"

EndsWith(h, lit) == OccursAt(h, Len(h) - Len(lit) + 1, lit)

\* The ways to read h as '<prefix> - Ranks - <category> - <course> - Rank'.
Readings(h) ==
    {[category |-> h[i + Len(RanksAnchor)],
      course |-> SubSeq(h, i + Len(RanksAnchor) + 1 + Len(Sep), Len(h) - Len(RankSuffix))] :
        i \in {j \in 1..Len(h) :
                  /\ EndsWith(h, RankSuffix)
                  /\ \E cat \in Categories : OccursAt(h, j, PatternHead(cat))
                  /\ j + Len(RanksAnchor) + 1 + Len(Sep) <= Len(h) - Len(RankSuffix) + 1}}

\* C4: a column is in the result iff its header reads as
\* '<prefix> - Ranks - <category> - <course> - Rank' with one of the three
\* categories and a course that is not empty after trimming, and a mapped
\* column carries that category and the trimmed course.
C4_MappedIffWellFormed ==
    Parsed =>
        LET h == columns[1]
            good == {r \in Readings(h) : Strip(r.course) # <<>>}
        IN  /\ (col_map # <<>>) <=> (good # {})
            /\ col_map # <<>> =>
                  \E r \in good : /\ col_map[1].category = r.category
                                  /\ col_map[1].course = Strip(r.course)

\* C5: the course of a mapped header is the text between the category token
\* and the ' - Rank' the header ends with, embedded ' - ' kept.
C5_CourseUpToFinalSuffix ==
    (Parsed /\ col_map # <<>>) =>
        /\ EndsWith(columns[1], RankSuffix)
        /\ \E r \in Readings(columns[1]) : col_map[1].course = Strip(r.course)

-----------------------------------------------------------------------------
(* Aggregation and records *)

Aggregated == pc \in {"write_text", "plot", "done"} /\ records # <<>>

\* The place of a course in the order the group-by produced.
GroupPos(course) ==
    CHOOSE k \in 1..Len(GroupBy(records)) : GroupBy(records)[k].Course = course

RanksOf(course) == {k \in 1..Len(records) : records[k].Course = course}

RECURSIVE SumOver(_)
SumOver(K) ==
    IF K = {} THEN 0
    ELSE LET k == CHOOSE x \in K : TRUE
         IN  records[k].Global_Rank + SumOver(K \ {k})

ExampleRecords ==
    [k \in 1..3 |-> [Student |-> <<k>>, Course |-> <<"A">>, Global_Rank |-> k]]

\* C7: every course of the records has exactly one summary row, with N the
\* number of its records and mean * N their sum; the standard deviation is
\* undefined exactly when N < 2; every summary row is a course of the
\* records; the ranks 1, 2, 3 give mean 2, N 3 and standard deviation 1.
C7_SummaryPerCourse ==
    /\ Aggregated =>
          /\ \A c \in CoursesOf(records) :
                /\ Cardinality({k \in 1..Len(course_stats) : course_stats[k].Course = c}) = 1
                /\ \A k \in 1..Len(course_stats) :
                      course_stats[k].Course = c =>
                          /\ course_stats[k].count = Cardinality(RanksOf(c))
                          /\ course_stats[k].mean.num * course_stats[k].count
                                = SumOver(RanksOf(c)) * course_stats[k].mean.den
                          /\ course_stats[k].mean.den # 0
                          /\ IsNaN(course_stats[k].std) <=> course_stats[k].count < 2
          /\ \A k \in 1..Len(course_stats) : course_stats[k].Course \in CoursesOf(records)
    /\ LET x == GroupStats(ExampleRecords, <<"A">>)
       IN  /\ x.mean.num = 2 * x.mean.den
           /\ x.count = 3
           /\ x.std.num = x.std.den /\ x.std.den # 0

\* A summary with one course of two records and one course of one record.
C7_Witness ==
    /\ Aggregated
    /\ \E a, b \in 1..Len(course_stats) :
          /\ course_stats[a].count = 2
          /\ course_stats[b].count = 1
          /\ IsNaN(course_stats[b].std)
          /\ ~IsNaN(course_stats[a].std)

DistinctStudents ==
    \A a, b \in 1..Len(students) : a # b => students[a] # students[b]

\* C10: with distinct respondent identifiers, no two records share both
\* Student and Course.
C10_OneRecordPerPair ==
    DistinctStudents =>
        \A a, b \in 1..Len(records) :
            a # b => ~(/\ records[a].Student = records[b].Student
                       /\ records[a].Course = records[b].Course)

-----------------------------------------------------------------------------
(* main *)

Written(artefact) == artefact \in Range(created)

\* C8: when the input file is absent, the run creates and writes nothing.
C8_NothingCreatedWithoutInput ==
    ~inputExists => created = <<>>

\* C9: the report and the chart are written only after the table was
\* loaded, a ranking column was found and a record exists; a run that finds
\* no ranking column, or only missing ranking values, ends with its message
\* and neither file; the chart is written after the report, and a run that
\* ends with records has written both.
C9_OutputsOnlyAfterChecks ==
    /\ (Written("ranking.txt") \/ Written("rank_order.png")) =>
          /\ loaded
          /\ parse_columns(columns) # <<>>
          /\ ~allMissing
          /\ records # <<>>
    /\ (pc = "done" /\ loaded /\ parse_columns(columns) = <<>>) =>
          /\ "No ranking columns found." \in Range(printed)
          /\ ~Written("ranking.txt") /\ ~Written("rank_order.png")
    /\ (pc = "done" /\ loaded /\ parse_columns(columns) # <<>> /\ allMissing) =>
          /\ "No rankings could be calculated." \in Range(printed)
          /\ ~Written("ranking.txt") /\ ~Written("rank_order.png")
    /\ Written("rank_order.png") =>
          \E a, b \in 1..Len(created) :
              a < b /\ created[a] = "ranking.txt" /\ created[b] = "rank_order.png"
    /\ (pc = "done" /\ loaded /\ ~allMissing) =>
          Written("ranking.txt") /\ Written("rank_order.png")

\* A run on a table with a ranking column and rows, all of whose ranking
\* values are missing, has ended.
C9_Witness ==
    /\ pc = "done"
    /\ loaded
    /\ col_map # <<>>
    /\ idx > 0
    /\ allMissing
    /\ ~Written("ranking.txt")

====
